---- MODULE Spec2Model ----
(***************************************************************************)
(* Rules engine and event handlers of BackgammonOnBevy.                     *)
(*   src/src/game.rs    Color, Board, Game                                  *)
(*   src/src/events.rs  the event handlers that drive a Game                *)
(*   src/src/ui.rs      ui_logic (the Roll Dice button)                     *)
(* A Rust panic (index out of bounds, unwrap of Err/None) ends the process: *)
(* it is the state panicked = TRUE, in which no handler runs any more.      *)
(***************************************************************************)
EXTENDS Integers, Sequences, FiniteSets, TLC

VARIABLES
    points,        \* Board::points   [i32; 24], sign = owner, magnitude = count
    bar,           \* Board::bar      [i32; 2], index 0 White's, index 1 Black's
    dice_rolls,    \* Game::dice_rolls  Vec<usize>
    dice_rolled,   \* Game::dice_rolled
    player,        \* Game::player
    game_log,      \* Game::game_log  Vec<GameLogEntry>
    button_roll_dice,   \* Visibility of the ButtonRollDice node (TRUE = shown)
    timers,        \* number of live DiceRollTimer entities
    dice_in_flight,     \* DiceRollStartEvents whose DiceRollResult is still to come
    roll_start_events,  \* DiceRollStartEvents not yet read by handle_dice_roll_start_event
    turn_start_events,  \* TurnStartEvents not yet read by handle_turn_start_event
    move_end_events,    \* MovePieceEndEvents not yet read
    game_over_events,   \* GameOverEvents sent so far (the player each one names)
    panicked,      \* the process aborted
    moves,         \* number of moves applied so far (bounds the model)
    last_res,      \* the result of the last Board::make_move call
    last_call,     \* the player, from_point and to_point of that call
    prev_points,   \* Board::points before that call
    prev_bar,      \* Board::bar before that call
    queued         \* the log entry the roll handler last read and the pips it
                   \* assigned to dice_rolls from it (events.rs:78-86)

vars == <<points, bar, dice_rolls, dice_rolled, player, game_log,
          button_roll_dice, timers, dice_in_flight, roll_start_events,
          turn_start_events, move_end_events, game_over_events, panicked,
          moves, last_res, last_call, prev_points, prev_bar, queued>>

-----------------------------------------------------------------------------
(* Bounds of the model *)

MaxMoves == 3      \* moves applied in one behaviour
MaxRolls == 2      \* entries of game_log in one behaviour
MaxHeight == 2     \* height of a stack on a drawn board
MaxFace == 2       \* highest face value a roll shows

(* Program constants *)

NumPoints == 24

White == "White"
Black == "Black"
None == "None"
Colors == {White, Black}
PointIdx == 0 .. (NumPoints - 1)
Faces == 1 .. MaxFace

Abs(x) == IF x < 0 THEN -x ELSE x

-----------------------------------------------------------------------------
(* game.rs: Color and Board *)

Opposite(color) == IF color = White THEN Black ELSE White

GetPointColor(pts, point) ==
    IF pts[point] = 0 THEN None
    ELSE IF pts[point] > 0 THEN White ELSE Black

GetPointCount(pts, point) == Abs(pts[point])

IsPlayerHomeComplete(pts, color) ==
    LET home_board == IF color = White THEN 18 .. 23 ELSE 0 .. 5
        rest_of_board == IF color = White THEN 0 .. 17 ELSE 6 .. 23
        home_of_same_color ==
            \A i \in home_board :
                GetPointColor(pts, i) = None \/ GetPointColor(pts, i) = color
        rest_of_board_is_empty ==
            \A i \in rest_of_board :
                GetPointColor(pts, i) = None \/ GetPointColor(pts, i) # color
    IN  home_of_same_color /\ rest_of_board_is_empty

\* faulty variant: the mover's own bar slot
OppositeBarIndexOwn(color) == IF color = White THEN 0 ELSE 1

OppositeBarIndex(color) == IF color = White THEN 1 ELSE 0

Direction(color) == IF color = White THEN 1 ELSE -1

\* faulty variant: two or more opposing checkers do not block a point
CanMovePieceNoBlock(pts, color, from_point, to_point) ==
    IF from_point \notin PointIdx THEN "panic"
    ELSE IF GetPointCount(pts, from_point) = 0 THEN "false"
    ELSE IF GetPointColor(pts, from_point) # color THEN "false"
    ELSE IF to_point \notin PointIdx THEN "panic"
    ELSE IF to_point >= 24 \/ to_point = 0 \/ to_point = 23 THEN "false"
    ELSE IF GetPointColor(pts, to_point) = Opposite(color)
            /\ to_point < from_point /\ Direction(color) = 1 THEN "false"
    ELSE IF GetPointColor(pts, to_point) = Opposite(color)
            /\ to_point > from_point /\ Direction(color) = -1 THEN "false"
    ELSE "true"

\* faulty variant: the direction of a hit is not tested
CanMovePieceAnyDirection(pts, color, from_point, to_point) ==
    IF from_point \notin PointIdx THEN "panic"
    ELSE IF GetPointCount(pts, from_point) = 0 THEN "false"
    ELSE IF GetPointColor(pts, from_point) # color THEN "false"
    ELSE IF to_point \notin PointIdx THEN "panic"
    ELSE IF GetPointColor(pts, to_point) = Opposite(color)
            /\ GetPointCount(pts, to_point) > 1 THEN "false"
    ELSE IF to_point >= 24 \/ to_point = 0 \/ to_point = 23 THEN "false"
    ELSE "true"

\* faulty variant: a point takes at most five checkers of a color
CanMovePieceCapFive(pts, color, from_point, to_point) ==
    IF from_point \notin PointIdx THEN "panic"
    ELSE IF GetPointCount(pts, from_point) = 0 THEN "false"
    ELSE IF GetPointColor(pts, from_point) # color THEN "false"
    ELSE IF to_point \notin PointIdx THEN "panic"
    ELSE IF GetPointColor(pts, to_point) = Opposite(color)
            /\ GetPointCount(pts, to_point) > 1 THEN "false"
    ELSE IF GetPointColor(pts, to_point) = color
            /\ GetPointCount(pts, to_point) >= 5 THEN "false"
    ELSE IF to_point >= 24 \/ to_point = 0 \/ to_point = 23 THEN "false"
    ELSE IF GetPointColor(pts, to_point) = Opposite(color)
            /\ to_point < from_point /\ Direction(color) = 1 THEN "false"
    ELSE IF GetPointColor(pts, to_point) = Opposite(color)
            /\ to_point > from_point /\ Direction(color) = -1 THEN "false"
    ELSE "true"

\* faulty variant: the owner of from_point is not tested
CanMovePieceAnyOwner(pts, color, from_point, to_point) ==
    IF from_point \notin PointIdx THEN "panic"
    ELSE IF to_point \notin PointIdx THEN "panic"
    ELSE IF GetPointColor(pts, to_point) = Opposite(color)
            /\ GetPointCount(pts, to_point) > 1 THEN "false"
    ELSE IF to_point >= 24 \/ to_point = 0 \/ to_point = 23 THEN "false"
    ELSE IF GetPointColor(pts, to_point) = Opposite(color)
            /\ to_point < from_point /\ Direction(color) = 1 THEN "false"
    ELSE IF GetPointColor(pts, to_point) = Opposite(color)
            /\ to_point > from_point /\ Direction(color) = -1 THEN "false"
    ELSE "true"

\* faulty variant: a point is blocked only from three opposing checkers on
CanMovePieceBlockedAtThree(pts, color, from_point, to_point) ==
    IF from_point \notin PointIdx THEN "panic"
    ELSE IF GetPointCount(pts, from_point) = 0 THEN "false"
    ELSE IF GetPointColor(pts, from_point) # color THEN "false"
    ELSE IF to_point \notin PointIdx THEN "panic"
    ELSE IF GetPointColor(pts, to_point) = Opposite(color)
            /\ GetPointCount(pts, to_point) > 2 THEN "false"
    ELSE IF to_point >= 24 \/ to_point = 0 \/ to_point = 23 THEN "false"
    ELSE IF GetPointColor(pts, to_point) = Opposite(color)
            /\ to_point < from_point /\ Direction(color) = 1 THEN "false"
    ELSE IF GetPointColor(pts, to_point) = Opposite(color)
            /\ to_point > from_point /\ Direction(color) = -1 THEN "false"
    ELSE "true"

\* "true", "false", or "panic" when an index into points is out of bounds
\* (from_point is read at line 121, to_point at line 132, before the range
\* test of line 141)
CanMovePiece(pts, color, from_point, to_point) ==
    IF from_point \notin PointIdx THEN "panic"
    ELSE IF GetPointCount(pts, from_point) = 0 THEN "false"
    ELSE IF GetPointColor(pts, from_point) # color THEN "false"
    ELSE IF to_point \notin PointIdx THEN "panic"
    ELSE IF GetPointColor(pts, to_point) = Opposite(color)
            /\ GetPointCount(pts, to_point) > 1 THEN "false"
    ELSE IF to_point >= 24 \/ to_point = 0 \/ to_point = 23 THEN "false"
    ELSE IF GetPointColor(pts, to_point) = Opposite(color)
            /\ to_point < from_point /\ Direction(color) = 1 THEN "false"
    ELSE IF GetPointColor(pts, to_point) = Opposite(color)
            /\ to_point > from_point /\ Direction(color) = -1 THEN "false"
    ELSE "true"

\* faulty variant: a hit flips the point but sends no checker to the bar
MakeMoveHitNoBar(pts, br, color, from_point, to_point) ==
    LET can == CanMovePiece(pts, color, from_point, to_point)
        direction == Direction(color)
        pts1 == [pts EXCEPT ![from_point] = @ - direction]
    IN  IF can = "panic" THEN [res |-> "Panic", points |-> pts, bar |-> br]
        ELSE IF can = "false" THEN [res |-> "Err", points |-> pts, bar |-> br]
        ELSE IF pts1[to_point] = -direction
             THEN [res |-> "Ok",
                   points |-> [pts1 EXCEPT ![to_point] = direction],
                   bar |-> br]
             ELSE [res |-> "Ok",
                   points |-> [pts1 EXCEPT ![to_point] = @ + direction],
                   bar |-> br]

\* faulty variant: the checker leaves from_point before the move is validated
MakeMoveTakeFirst(pts, br, color, from_point, to_point) ==
    LET can == CanMovePiece(pts, color, from_point, to_point)
        direction == Direction(color)
        pts1 == [pts EXCEPT ![from_point] = @ - direction]
    IN  IF can = "panic" THEN [res |-> "Panic", points |-> pts, bar |-> br]
        ELSE IF can = "false" THEN [res |-> "Err", points |-> pts1, bar |-> br]
        ELSE IF pts1[to_point] = -direction
             THEN [res |-> "Ok",
                   points |-> [pts1 EXCEPT ![to_point] = direction],
                   bar |-> [br EXCEPT ![OppositeBarIndex(color)] = @ + 1]]
             ELSE [res |-> "Ok",
                   points |-> [pts1 EXCEPT ![to_point] = @ + direction],
                   bar |-> br]

\* faulty variant: a move of a player with a checker on the bar takes that
\* checker off the bar
MakeMoveEntersFromBar(pts, br, color, from_point, to_point) ==
    LET can == CanMovePiece(pts, color, from_point, to_point)
        direction == Direction(color)
        pts1 == [pts EXCEPT ![from_point] = @ - direction]
        own == OppositeBarIndex(Opposite(color))
        br1 == IF br[own] > 0 THEN [br EXCEPT ![own] = @ - 1] ELSE br
    IN  IF can = "panic" THEN [res |-> "Panic", points |-> pts, bar |-> br]
        ELSE IF can = "false" THEN [res |-> "Err", points |-> pts, bar |-> br]
        ELSE IF pts1[to_point] = -direction
             THEN [res |-> "Ok",
                   points |-> [pts1 EXCEPT ![to_point] = direction],
                   bar |-> [br1 EXCEPT ![OppositeBarIndex(color)] = @ + 1]]
             ELSE [res |-> "Ok",
                   points |-> [pts1 EXCEPT ![to_point] = @ + direction],
                   bar |-> br1]

\* res: "Ok", "Err" (Invalid move) or "Panic"; points and bar after the call
MakeMove(pts, br, color, from_point, to_point) ==
    LET can == CanMovePiece(pts, color, from_point, to_point)
        direction == Direction(color)
        pts1 == [pts EXCEPT ![from_point] = @ - direction]
    IN  IF can = "panic" THEN [res |-> "Panic", points |-> pts, bar |-> br]
        ELSE IF can = "false" THEN [res |-> "Err", points |-> pts, bar |-> br]
        ELSE IF pts1[to_point] = -direction
             THEN [res |-> "Ok",
                   points |-> [pts1 EXCEPT ![to_point] = direction],
                   bar |-> [br EXCEPT ![OppositeBarIndex(color)] = @ + 1]]
             ELSE [res |-> "Ok",
                   points |-> [pts1 EXCEPT ![to_point] = @ + direction],
                   bar |-> br]

GetIndex(color, index, dice_roll_value) ==
    LET idx == IF color = White THEN index + dice_roll_value
               ELSE IF index >= dice_roll_value THEN index - dice_roll_value
               ELSE 0
    IN  IF idx >= 24 THEN idx - 24 ELSE idx

Home(color) == IF color = White THEN 18 .. 23 ELSE 0 .. 5

GetPointsForColor(pts, color) ==
    SelectSeq([k \in 1 .. NumPoints |-> k - 1],
              LAMBDA i : GetPointColor(pts, i) = color)

-----------------------------------------------------------------------------
(* game.rs: Game *)

\* faulty variant: only the first pip of the list is tried
GetPossibleMovesFirstPip(pts, color, rolls) ==
    LET indices == GetPointsForColor(pts, color)
        pairs == [k \in 1 .. (IF rolls = <<>> THEN 0 ELSE Len(indices)) |->
                    <<indices[k], GetIndex(color, indices[k], rolls[1])>>]
    IN  SelectSeq(pairs,
                  LAMBDA m : CanMovePiece(pts, color, m[1], m[2]) = "true")

GetPossibleMoves(pts, color, rolls) ==
    LET indices == GetPointsForColor(pts, color)
        n == Len(rolls)
        pairs == [k \in 1 .. (Len(indices) * n) |->
                    <<indices[((k - 1) \div n) + 1],
                      GetIndex(color, indices[((k - 1) \div n) + 1],
                               rolls[((k - 1) % n) + 1])>>]
    IN  SelectSeq(pairs,
                  LAMBDA m : CanMovePiece(pts, color, m[1], m[2]) = "true")

CanMove(pts, color, rolls) == GetPossibleMoves(pts, color, rolls) # <<>>

\* the first component: a pair <<position (1-based), height>> per point
GetChoosablePieces(pts, color) ==
    LET owned == SelectSeq([k \in 1 .. NumPoints |-> k - 1],
                           LAMBDA i : ~(pts[i] < 0 /\ color # Black)
                                      /\ ~(pts[i] > 0 /\ color # White)
                                      /\ pts[i] # 0)
    IN  [k \in 1 .. Len(owned) |-> <<owned[k] + 1, Abs(pts[owned[k]])>>]

IsOver(pts) ==
    LET player1_borne_off == \A i \in 0 .. 17 : pts[i] = 0
        player2_borne_off == \A i \in 6 .. 23 : pts[i] = 0
    IN  player1_borne_off \/ player2_borne_off

\* Some(color) is the color, None is None
GetWinner(pts) ==
    IF \A i \in 18 .. 23 : pts[i] = 0 THEN White
    ELSE IF \A i \in 0 .. 5 : pts[i] = 0 THEN Black
    ELSE None

\* faulty variant: White's three mid checkers stand on index 17
NewPointsShifted ==
    [i \in PointIdx |->
        CASE i = 0 -> 2
          [] i = 23 -> -2
          [] i = 5 -> -5
          [] i = 18 -> 5
          [] i = 17 -> 3
          [] i = 7 -> -3
          [] i = 12 -> -5
          [] i = 11 -> 5
          [] OTHER -> 0]

NewPoints ==
    [i \in PointIdx |->
        CASE i = 0 -> 2
          [] i = 23 -> -2
          [] i = 5 -> -5
          [] i = 18 -> 5
          [] i = 16 -> 3
          [] i = 7 -> -3
          [] i = 12 -> -5
          [] i = 11 -> 5
          [] OTHER -> 0]

\* the loop of highest_point_in_home_zone from point i to point last, with
\* the index and value found so far
RECURSIVE HighestFrom(_, _, _, _, _, _)
HighestFrom(pts, color, i, last, highest_index, highest_value) ==
    IF i > last THEN <<highest_index, highest_value>>
    ELSE IF pts[i] > highest_value * Direction(color)
         THEN HighestFrom(pts, color, i + 1, last, i, pts[i])
         ELSE HighestFrom(pts, color, i + 1, last, highest_index,
                          highest_value)

HighestPointInHomeZone(pts, color) ==
    IF color = White
    THEN HighestFrom(pts, color, 18, 23, 0, 0)
    ELSE HighestFrom(pts, color, 0, 5, 0, 0)

\* bear_off_piece(from, roll) for the player `color`.  res: "Exact" (a
\* checker taken from the exact point), "Moved" (a move on the board),
\* "Fallback" (a checker taken from highest_point_in_home_zone) or "Panic"
\* (an index into points out of bounds)
BearOffPiece(pts, br, color, from, roll) ==
    LET direction == Direction(color)
        index == from - direction
        next_index == index - direction
        next_destination == GetIndex(color, next_index, roll)
        highest_index == HighestPointInHomeZone(pts, color)[1]
    IN  IF index \notin PointIdx
        THEN [res |-> "Panic", points |-> pts, bar |-> br]
        ELSE IF pts[index] # 0
        THEN [res |-> "Exact",
              points |-> [pts EXCEPT ![index] = @ - direction], bar |-> br]
        ELSE IF next_index \notin PointIdx
        THEN [res |-> "Panic", points |-> pts, bar |-> br]
        ELSE IF CanMovePiece(pts, color, next_index, next_destination) = "true"
        THEN [res |-> "Moved",
              points |-> MakeMove(pts, br, color, next_index,
                                  next_destination).points,
              bar |-> MakeMove(pts, br, color, next_index,
                               next_destination).bar]
        ELSE [res |-> "Fallback",
              points |-> [pts EXCEPT ![highest_index] = @ - direction],
              bar |-> br]

-----------------------------------------------------------------------------
(* game.rs: Game::switch_turn, as the values it assigns *)

\* faulty variant: dice_rolled is left as it was
SwitchTurnKeepRolled ==
    /\ player' = Opposite(player)
    /\ dice_rolled' = dice_rolled
    /\ dice_rolls' = <<>>

SwitchTurn ==
    /\ player' = Opposite(player)
    /\ dice_rolled' = FALSE
    /\ dice_rolls' = <<>>

-----------------------------------------------------------------------------
(* events.rs: the pure parts of the handlers *)

\* faulty variant: every roll queues two more pips of its first value
ExpandRollAlways(values) == values \o <<values[1], values[1]>>

\* faulty variant: a double queues one more pip instead of two
ExpandRollThree(values) ==
    IF values[1] = values[2]
    THEN values \o <<values[1]>>
    ELSE values

\* lines 79-84: the pips queued for a logged roll, two more for a double
ExpandRoll(values) ==
    IF values[1] = values[2]
    THEN values \o <<values[1], values[1]>>
    ELSE values

\* line 253: the pip a move event pays, from its 1-based from and to
MovePip(from, to) == Abs(to - from)

\* lines 254-266: drop every entry equal to move_, push back all but one
ConsumePip(rolls, move_) ==
    LET number_of_same_moves == Len(SelectSeq(rolls, LAMBDA x : x = move_))
        rest == SelectSeq(rolls, LAMBDA x : x # move_)
    IN  IF number_of_same_moves > 1
        THEN rest \o [k \in 1 .. (number_of_same_moves - 1) |-> move_]
        ELSE rest

-----------------------------------------------------------------------------
(* State after construction: Game::new() and setup_ui *)

InitEvents ==
    /\ button_roll_dice = TRUE
    /\ timers = 0
    /\ dice_in_flight = 0
    /\ roll_start_events = 0
    /\ turn_start_events = 0
    /\ move_end_events = 0
    /\ game_over_events = <<>>
    /\ panicked = FALSE
    /\ moves = 0
    /\ last_res = "none"
    /\ last_call = <<>>
    /\ prev_points = points
    /\ prev_bar = bar
    /\ queued = [values |-> <<>>, pips |-> <<>>]

Init ==
    /\ points = NewPoints
    /\ bar = [i \in 0 .. 1 |-> 0]
    /\ dice_rolls = <<>>
    /\ player = White
    /\ dice_rolled = FALSE
    /\ game_log = <<>>
    /\ InitEvents

-----------------------------------------------------------------------------
(* ui.rs and events.rs: one action per handler *)

\* ui_logic, the Roll Dice button clicked.  A hidden button takes no click,
\* and the click that follows one frame's click comes after
\* handle_dice_roll_start_event has read the event.
ClickRollDice ==
    /\ ~panicked
    /\ button_roll_dice
    /\ roll_start_events = 0
    /\ Len(game_log) + dice_in_flight < MaxRolls
    /\ moves < MaxMoves
    /\ dice_rolled' = TRUE
    /\ timers' = timers + 1
    /\ dice_in_flight' = dice_in_flight + 1
    /\ roll_start_events' = roll_start_events + 1
    /\ UNCHANGED <<points, bar, dice_rolls, player, game_log, button_roll_dice,
                   turn_start_events, move_end_events, game_over_events,
                   panicked, moves, last_res, last_call, prev_points, prev_bar,
                   queued>>

HandleDiceRollStartEvent ==
    /\ ~panicked
    /\ roll_start_events > 0
    /\ roll_start_events' = 0
    /\ button_roll_dice' = FALSE
    /\ UNCHANGED <<points, bar, dice_rolls, dice_rolled, player, game_log,
                   timers, dice_in_flight, turn_start_events, move_end_events,
                   game_over_events, panicked, moves, last_res, last_call, prev_points, prev_bar,
                   queued>>

HandleTurnStartEvent ==
    /\ ~panicked
    /\ turn_start_events > 0
    /\ turn_start_events' = 0
    /\ button_roll_dice' = TRUE
    /\ UNCHANGED <<points, bar, dice_rolls, dice_rolled, player, game_log,
                   timers, dice_in_flight, roll_start_events, move_end_events,
                   game_over_events, panicked, moves, last_res, last_call, prev_points, prev_bar,
                   queued>>

\* the dice plugin delivers the two face values of a started roll
EventDiceRollResult(d1, d2) ==
    /\ ~panicked
    /\ dice_in_flight > 0
    /\ dice_in_flight' = dice_in_flight - 1
    /\ game_log' = Append(game_log, [player |-> player, dice_rolls |-> <<d1, d2>>])
    /\ UNCHANGED <<points, bar, dice_rolls, dice_rolled, player,
                   button_roll_dice, timers, roll_start_events,
                   turn_start_events, move_end_events, game_over_events,
                   panicked, moves, last_res, last_call, prev_points, prev_bar,
                   queued>>

\* faulty variant: the pips are queued even when no move is possible
EventDiceRollsCompleteNoSwitch ==
    /\ ~panicked
    /\ timers > 0
    /\ IF game_log = <<>>
       THEN /\ panicked' = TRUE
            /\ UNCHANGED <<dice_rolls, dice_rolled, player, timers,
                           turn_start_events, queued>>
       ELSE LET rolls == ExpandRoll(game_log[Len(game_log)].dice_rolls)
            IN  /\ queued' = [values |-> game_log[Len(game_log)].dice_rolls,
                               pips |-> rolls]
                /\ timers' = timers - 1
                /\ panicked' = FALSE
                /\ dice_rolls' = rolls
                /\ UNCHANGED <<dice_rolled, player, turn_start_events>>
    /\ UNCHANGED <<points, bar, game_log, button_roll_dice, dice_in_flight,
                   roll_start_events, move_end_events, game_over_events,
                   moves, last_res, last_call, prev_points, prev_bar>>

\* faulty variant: the expanded pips are written back into the log entry
EventDiceRollsCompleteExpandsLog ==
    /\ ~panicked
    /\ timers > 0
    /\ IF game_log = <<>>
       THEN /\ panicked' = TRUE
            /\ UNCHANGED <<dice_rolls, dice_rolled, player, timers,
                           turn_start_events, queued, game_log>>
       ELSE LET rolls == ExpandRoll(game_log[Len(game_log)].dice_rolls)
            IN  /\ queued' = [values |-> game_log[Len(game_log)].dice_rolls,
                               pips |-> rolls]
                /\ game_log' = [game_log EXCEPT
                                   ![Len(game_log)].dice_rolls = rolls]
                /\ timers' = timers - 1
                /\ panicked' = FALSE
                /\ IF GetPossibleMoves(points, player, rolls) = <<>>
                   THEN /\ SwitchTurn
                        /\ turn_start_events' = turn_start_events + 1
                   ELSE /\ dice_rolls' = rolls
                        /\ UNCHANGED <<dice_rolled, player, turn_start_events>>
    /\ UNCHANGED <<points, bar, button_roll_dice, dice_in_flight,
                   roll_start_events, move_end_events, game_over_events,
                   moves, last_res, last_call, prev_points, prev_bar>>

\* a DiceRollTimer has finished
EventDiceRollsComplete ==
    /\ ~panicked
    /\ timers > 0
    /\ IF game_log = <<>>
       THEN /\ panicked' = TRUE
            /\ UNCHANGED <<dice_rolls, dice_rolled, player, timers,
                           turn_start_events, queued>>
       ELSE LET rolls == ExpandRoll(game_log[Len(game_log)].dice_rolls)
            IN  /\ queued' = [values |-> game_log[Len(game_log)].dice_rolls,
                               pips |-> rolls]
                /\ timers' = timers - 1
                /\ panicked' = FALSE
                /\ IF GetPossibleMoves(points, player, rolls) = <<>>
                   THEN /\ SwitchTurn
                        /\ turn_start_events' = turn_start_events + 1
                   ELSE /\ dice_rolls' = rolls
                        /\ UNCHANGED <<dice_rolled, player, turn_start_events>>
    /\ UNCHANGED <<points, bar, game_log, button_roll_dice, dice_in_flight,
                   roll_start_events, move_end_events, game_over_events,
                   moves, last_res, last_call, prev_points, prev_bar>>

\* one MovePieceEvent {from, to} read by handle_move_piece_event.  Every
\* system runs once a frame, so the MovePieceEndEvent of a move is read
\* before the move event of a later frame is.
HandleMovePieceEvent(from, to) ==
    /\ ~panicked
    /\ move_end_events = 0
    /\ moves < MaxMoves
    /\ LET r == MakeMove(points, bar, player, from - 1, to - 1)
       IN  /\ last_res' = r.res
           /\ last_call' = [player |-> player, from |-> from - 1, to |-> to - 1]
           /\ prev_points' = points
           /\ prev_bar' = bar
           /\ points' = r.points
           /\ bar' = r.bar
           /\ IF r.res = "Ok"
              THEN /\ dice_rolls' = ConsumePip(dice_rolls, MovePip(from, to))
                   /\ move_end_events' = move_end_events + 1
                   /\ moves' = moves + 1
                   /\ panicked' = FALSE
              ELSE /\ panicked' = TRUE
                   /\ UNCHANGED <<dice_rolls, move_end_events, moves>>
    /\ UNCHANGED <<dice_rolled, player, game_log, button_roll_dice, timers,
                   dice_in_flight, roll_start_events, turn_start_events,
                   game_over_events, queued>>

\* faulty variant: the turn ends only when no pip is left
HandleMovePieceEndEventPipsOnly ==
    /\ ~panicked
    /\ move_end_events > 0
    /\ move_end_events' = move_end_events - 1
    /\ IF IsOver(points)
       THEN /\ game_over_events' = Append(game_over_events, player)
            /\ UNCHANGED <<dice_rolls, dice_rolled, player, turn_start_events>>
       ELSE IF dice_rolls # <<>>
       THEN UNCHANGED <<dice_rolls, dice_rolled, player, turn_start_events,
                        game_over_events>>
       ELSE /\ SwitchTurn
            /\ turn_start_events' = turn_start_events + 1
            /\ UNCHANGED game_over_events
    /\ UNCHANGED <<points, bar, game_log, button_roll_dice, timers,
                   dice_in_flight, roll_start_events, panicked, moves,
                   last_res, last_call, prev_points, prev_bar,
                   queued>>

HandleMovePieceEndEvent ==
    /\ ~panicked
    /\ move_end_events > 0
    /\ move_end_events' = move_end_events - 1
    /\ IF IsOver(points)
       THEN /\ game_over_events' = Append(game_over_events, player)
            /\ UNCHANGED <<dice_rolls, dice_rolled, player, turn_start_events>>
       ELSE IF CanMove(points, player, dice_rolls)
       THEN UNCHANGED <<dice_rolls, dice_rolled, player, turn_start_events,
                        game_over_events>>
       ELSE /\ SwitchTurn
            /\ turn_start_events' = turn_start_events + 1
            /\ UNCHANGED game_over_events
    /\ UNCHANGED <<points, bar, game_log, button_roll_dice, timers,
                   dice_in_flight, roll_start_events, panicked, moves,
                   last_res, last_call, prev_points, prev_bar,
                   queued>>

-----------------------------------------------------------------------------
(* The senders of MovePieceEvent *)

\* handle_piece_picking: a click on a candidate piece of the chosen piece
PickedMoves ==
    LET ms == GetPossibleMoves(points, player, dice_rolls)
    IN  {<<ms[k][1] + 1, ms[k][2] + 1>> : k \in 1 .. Len(ms)}

MovePiecePicked ==
    \E m \in PickedMoves : HandleMovePieceEvent(m[1], m[2])

\* The points a drawn stack stands on: both edges, both ends of each home
\* zone and the two points next to the home zones.
DrawnPoints == {0, 1, 5, 6, 17, 18, 22, 23}

\* any sender: the positions (1-based) an event names are those of the 24
\* points and, as destination, the first position past the board
EventFrom == 1 .. NumPoints
EventTo == 1 .. (NumPoints + 1)

MovePieceAny ==
    \E from \in EventFrom, to \in EventTo : HandleMovePieceEvent(from, to)

RollResult ==
    \E d1 \in Faces, d2 \in Faces : EventDiceRollResult(d1, d2)

Next ==
    \/ ClickRollDice
    \/ HandleDiceRollStartEvent
    \/ HandleTurnStartEvent
    \/ RollResult
    \/ EventDiceRollsComplete
    \/ MovePiecePicked
    \/ HandleMovePieceEndEvent

Spec == Init /\ [][Next]_vars

\* A board of at most two stacks, each of at most MaxHeight checkers of
\* either color, with either player to move (Board's fields are public);
\* one more move is applied to it.
InitBoard ==
    /\ \E pa \in DrawnPoints, pb \in DrawnPoints,
          va \in (-MaxHeight) .. MaxHeight, vb \in (-MaxHeight) .. MaxHeight :
            points = [i \in PointIdx |->
                        IF i = pa THEN va ELSE IF i = pb THEN vb ELSE 0]
    /\ bar = [i \in 0 .. 1 |-> 0]
    /\ dice_rolls = <<>>
    /\ player \in Colors
    /\ dice_rolled = FALSE
    /\ game_log = <<>>
    /\ button_roll_dice = TRUE
    /\ timers = 0
    /\ dice_in_flight = 0
    /\ roll_start_events = 0
    /\ turn_start_events = 0
    /\ move_end_events = 0
    /\ game_over_events = <<>>
    /\ panicked = FALSE
    /\ moves = MaxMoves - 1
    /\ last_res = "none"
    /\ last_call = <<>>
    /\ prev_points = points
    /\ prev_bar = bar
    /\ queued = [values |-> <<>>, pips |-> <<>>]

NextBoard ==
    \/ MovePieceAny
    \/ HandleMovePieceEndEvent

SpecBoard == InitBoard /\ [][NextBoard]_vars

\* the faces of a die
Sides == 6
DieFaces == 1 .. Sides

\* the dice plugin delivers any two faces
RollResultAnyFace ==
    \E d1 \in DieFaces, d2 \in DieFaces : EventDiceRollResult(d1, d2)

\* The opening board or a board of at most two stacks, with either player to
\* move, while a roll is under way: Roll Dice was clicked and
\* handle_dice_roll_start_event has hidden the button; the dice are in the
\* air and the timer runs.  Two moves are applied to it.
InitPlay ==
    /\ \/ points = NewPoints
       \/ \E pa \in DrawnPoints, pb \in DrawnPoints,
             va \in (-MaxHeight) .. MaxHeight,
             vb \in (-MaxHeight) .. MaxHeight :
               points = [i \in PointIdx |->
                           IF i = pa THEN va ELSE IF i = pb THEN vb ELSE 0]
    /\ bar = [i \in 0 .. 1 |-> 0]
    /\ dice_rolls = <<>>
    /\ player \in Colors
    /\ dice_rolled = TRUE
    /\ game_log = <<>>
    /\ button_roll_dice = FALSE
    /\ timers = 1
    /\ dice_in_flight = 1
    /\ roll_start_events = 0
    /\ turn_start_events = 0
    /\ move_end_events = 0
    /\ game_over_events = <<>>
    /\ panicked = FALSE
    /\ moves = MaxMoves - 2
    /\ last_res = "none"
    /\ last_call = <<>>
    /\ prev_points = points
    /\ prev_bar = bar
    /\ queued = [values |-> <<>>, pips |-> <<>>]

NextPlay ==
    \/ RollResultAnyFace
    \/ EventDiceRollsComplete
    \/ MovePiecePicked
    \/ HandleMovePieceEndEvent
    \/ HandleTurnStartEvent

SpecPlay == InitPlay /\ [][NextPlay]_vars

\* Game::bear_off_piece called with a position and a pip.  The position is
\* an i32: those of the 24 points and up to two past either end.
BearOffFrom == (-2) .. (NumPoints + 1)

BearOffPieceCall(from, roll) ==
    /\ ~panicked
    /\ moves < MaxMoves
    /\ LET r == BearOffPiece(points, bar, player, from, roll)
       IN  /\ last_res' = r.res
           /\ last_call' = [player |-> player, from |-> from, to |-> roll]
           /\ prev_points' = points
           /\ prev_bar' = bar
           /\ points' = r.points
           /\ bar' = r.bar
           /\ panicked' = (r.res = "Panic")
           /\ moves' = IF r.res = "Panic" THEN moves ELSE moves + 1
    /\ UNCHANGED <<dice_rolls, dice_rolled, player, game_log,
                   button_roll_dice, timers, dice_in_flight,
                   roll_start_events, turn_start_events, move_end_events,
                   game_over_events, queued>>

BearOffAny ==
    \E from \in BearOffFrom, roll \in DieFaces : BearOffPieceCall(from, roll)

\* a drawn board (as InitBoard) to which bear_off_piece is applied once
NextBearOff == BearOffAny

SpecBearOff == InitBoard /\ [][NextBearOff]_vars

\* A board of at most two stacks on which the player to move may have a
\* checker on the bar (it was hit earlier), while a roll is under way; one
\* move is applied to it.
InitBar ==
    /\ \E pa \in DrawnPoints, pb \in DrawnPoints,
          va \in (-MaxHeight) .. MaxHeight, vb \in (-MaxHeight) .. MaxHeight :
            points = [i \in PointIdx |->
                        IF i = pa THEN va ELSE IF i = pb THEN vb ELSE 0]
    /\ player \in Colors
    /\ \E hit \in 0 .. 1 :
          bar = [i \in 0 .. 1 |-> IF i = OppositeBarIndex(Opposite(player))
                                  THEN hit ELSE 0]
    /\ dice_rolls = <<>>
    /\ dice_rolled = TRUE
    /\ game_log = <<>>
    /\ button_roll_dice = FALSE
    /\ timers = 1
    /\ dice_in_flight = 1
    /\ roll_start_events = 0
    /\ turn_start_events = 0
    /\ move_end_events = 0
    /\ game_over_events = <<>>
    /\ panicked = FALSE
    /\ moves = MaxMoves - 1
    /\ last_res = "none"
    /\ last_call = <<>>
    /\ prev_points = points
    /\ prev_bar = bar
    /\ queued = [values |-> <<>>, pips |-> <<>>]

NextBar ==
    \/ RollResult
    \/ EventDiceRollsComplete
    \/ MovePiecePicked
    \/ HandleMovePieceEndEvent
    \/ HandleTurnStartEvent

SpecBar == InitBar /\ [][NextBar]_vars

-----------------------------------------------------------------------------
(* Vocabulary of the properties *)

\* the bar slot that holds the hit checkers of a color
BarOf(color) == IF color = White THEN 0 ELSE 1

RECURSIVE CheckersUpTo(_, _, _)
CheckersUpTo(pts, color, i) ==
    IF i < 0 THEN 0
    ELSE CheckersUpTo(pts, color, i - 1)
         + (IF GetPointColor(pts, i) = color THEN GetPointCount(pts, i) ELSE 0)

\* the checkers of a color on the 24 points
OnTrack(pts, color) == CheckersUpTo(pts, color, NumPoints - 1)

Occurrences(rolls, v) == Len(SelectSeq(rolls, LAMBDA x : x = v))

\* the elements of a sequence
Range(seq) == {seq[k] : k \in 1 .. Len(seq)}

\* the checkers of a color on one point
CountOn(pts, color, i) ==
    IF GetPointColor(pts, i) = color THEN GetPointCount(pts, i) ELSE 0

\* the last make_move call of the move handler, and what it was given
Called == last_res # "none"
Mover == last_call.player
From == last_call.from
To == last_call.to

-----------------------------------------------------------------------------
(* C1 - Checker conservation: in every state reached from Game::new() each  *)
(* color has 15 checkers, counting those on the 24 points, those on its bar *)
(* and those borne off.  No operation of the model bears a checker off      *)
(* (make_move accepts no destination past the board), so the borne-off      *)
(* count is 0 throughout.                                                   *)
C1_CheckerConservation ==
    \A c \in Colors : OnTrack(points, c) + bar[BarOf(c)] + 0 = 15

\* a checker was hit: it is on the bar and no longer on the track
C1_Witness ==
    \E c \in Colors : bar[BarOf(c)] > 0 /\ OnTrack(points, c) < 15

(* C2 - Hitting: an accepted make_move onto a point that held exactly one   *)
(* opposing checker leaves exactly one checker of the mover there, raises   *)
(* the opponent's bar by one and leaves the mover's bar as it was.          *)
C2_Hitting ==
    (last_res = "Ok" /\ prev_points[To] = -Direction(Mover))
    => /\ GetPointColor(points, To) = Mover
       /\ GetPointCount(points, To) = 1
       /\ bar[BarOf(Opposite(Mover))] = prev_bar[BarOf(Opposite(Mover))] + 1
       /\ bar[BarOf(Mover)] = prev_bar[BarOf(Mover)]

\* a move onto a single opposing checker was accepted
C2_Witness ==
    /\ last_res = "Ok"
    /\ prev_points[To] = -Direction(Mover)
    /\ prev_points[From] = 2 * Direction(Mover)

(* C3 - Atomic rejection: when make_move returns the InvalidMove error the  *)
(* 24 points and both bar counters are as before the call.                  *)
C3_AtomicRejection ==
    last_res = "Err" => (points = prev_points /\ bar = prev_bar)

\* a call from a point of the mover was rejected
C3_Witness ==
    /\ last_res = "Err"
    /\ GetPointColor(prev_points, From) = Mover

(* C4 - can_move_piece is false when from_point is empty and when it holds  *)
(* checkers of the opponent, whatever the destination (a point or an index  *)
(* past the board); make_move then returns InvalidMove.                     *)
C4_RejectsForeignOrigin ==
    (Called /\ (prev_points[From] = 0
                \/ GetPointColor(prev_points, From) = Opposite(Mover)))
    => /\ CanMovePiece(prev_points, Mover, From, To) = "false"
       /\ last_res = "Err"

\* a call from a point of the opponent to a free inner point was rejected
C4_Witness ==
    /\ last_res = "Err"
    /\ GetPointColor(prev_points, From) = Opposite(Mover)
    /\ To \in 1 .. 22
    /\ prev_points[To] = 0

(* C5 - can_move_piece is false whenever to_point is one of the 24 points   *)
(* and holds two or more checkers of the opponent; no accepted move lands   *)
(* on such a point.                                                         *)
C5_RejectsBlockedPoint ==
    (Called /\ To \in PointIdx
            /\ GetPointColor(prev_points, To) = Opposite(Mover)
            /\ GetPointCount(prev_points, To) >= 2)
    => /\ CanMovePiece(prev_points, Mover, From, To) = "false"
       /\ last_res = "Err"

\* a call forward from a point of the mover onto an inner point held by
\* exactly two opposing checkers was rejected
C5_Witness ==
    /\ last_res = "Err"
    /\ GetPointColor(prev_points, From) = Mover
    /\ To \in 1 .. 22
    /\ (To - From) * Direction(Mover) > 0
    /\ prev_points[To] = -2 * Direction(Mover)

(* C6 - A hit onto an edge point is legal: for every destination among the *)
(* 24 points, index 0 and index 23 included, that holds exactly one         *)
(* opposing checker and lies in the mover's direction from a point of the   *)
(* mover, make_move succeeds, the opponent's bar grows by one and the       *)
(* destination holds one checker of the mover.                              *)
C6_EdgeHitLegal ==
    \A c \in Colors, t \in PointIdx :
        points[t] = -Direction(c)
        => \A f \in PointIdx :
             (GetPointColor(points, f) = c /\ (t - f) * Direction(c) > 0)
             => LET r == MakeMove(points, bar, c, f, t)
                IN  /\ r.res = "Ok"
                    /\ r.bar[BarOf(Opposite(c))] = bar[BarOf(Opposite(c))] + 1
                    /\ r.points[t] = Direction(c)

(* C7 - Bear-off needs a complete home: on a board where                    *)
(* is_player_home_complete(White) is false, make_move(White, from, 24)      *)
(* returns the InvalidMove error and leaves the board unchanged.  (Black's  *)
(* edge is below index 0, which a usize to_point cannot name.)              *)
C7_BearOffNeedsHome ==
    ~IsPlayerHomeComplete(points, White)
    => \A f \in PointIdx :
         LET r == MakeMove(points, bar, White, f, NumPoints)
         IN  r.res = "Err" /\ r.points = points /\ r.bar = bar

(* C8 - Bear-off is accepted with a complete home: when                     *)
(* is_player_home_complete(White) holds and from_point is White's, a call   *)
(* with to_point past the board gets true from can_move_piece, and          *)
(* make_move takes exactly one White checker from from_point and changes no *)
(* other point and no bar counter.                                          *)
C8_BearOffAccepted ==
    (Called /\ Mover = White /\ To >= NumPoints
            /\ IsPlayerHomeComplete(prev_points, White)
            /\ GetPointColor(prev_points, From) = White)
    => /\ CanMovePiece(prev_points, White, From, To) = "true"
       /\ last_res = "Ok"
       /\ points = [prev_points EXCEPT ![From] = @ - 1]
       /\ bar = prev_bar

(* C9 - No failure aborts: when the move handler is given a from/to pair    *)
(* that make_move rejects, the program keeps running with board,            *)
(* dice_rolls, player and game_log unchanged; no move event leads to a      *)
(* panic state.                                                             *)
C9_NoFailureAborts ==
    (Called /\ last_res # "Ok") => ~panicked

(* C10 - Doubles rule: the pips a roll (d1, d2) queues are the multiset     *)
(* {d1, d2} when d1 differs from d2 and four copies of d1 when they are     *)
(* equal; dice_rolls holds those pips, less the ones moves have consumed   *)
(* or a turn switch has dropped.                                            *)
C10_DoublesRule ==
    /\ \A v \in Faces : Occurrences(dice_rolls, v) <= Occurrences(queued.pips, v)
    /\ queued.values # <<>>
       => LET d1 == queued.values[1]
              d2 == queued.values[2]
          IN  /\ \A v \in Faces :
                   Occurrences(queued.pips, v) =
                       IF d1 = d2 THEN (IF v = d1 THEN 4 ELSE 0)
                       ELSE (IF v = d1 \/ v = d2 THEN 1 ELSE 0)
              /\ Len(queued.pips) = (IF d1 = d2 THEN 4 ELSE 2)

\* a double was rolled and dice_rolls holds its four pips
C10_Witness ==
    /\ queued.values # <<>>
    /\ queued.values[1] = queued.values[2]
    /\ dice_rolls = queued.pips
    /\ Len(dice_rolls) = 4

(* C11 - Pip consumption: when a move from `from` to `to` is applied, with  *)
(* d = |to - from|, dice_rolls holds exactly one fewer occurrence of d than *)
(* before, and the entries other than d are the same, in the same order.    *)
C11_PipConsumption ==
    [][(last_res' = "Ok" /\ moves' = moves + 1)
       => LET d == Abs(last_call'.to - last_call'.from)
          IN  /\ Occurrences(dice_rolls', d) = Occurrences(dice_rolls, d) - 1
              /\ SelectSeq(dice_rolls', LAMBDA x : x # d)
                   = SelectSeq(dice_rolls, LAMBDA x : x # d)]_vars

(* C12 - is_over() is true exactly when at least one color has no checker   *)
(* on the 24 points: false whenever both colors have a checker on the       *)
(* track, true whenever one color has none.                                 *)
C12_IsOverExact ==
    IsOver(points) <=> (\E c \in Colors : OnTrack(points, c) = 0)

(* C13 - get_winner() returns Some(c) only when is_over() is true and c has *)
(* no checker on the track, and returns None whenever is_over() is false.   *)
C13_WinnerOnlyWhenOver ==
    /\ GetWinner(points) # None
       => (IsOver(points) /\ OnTrack(points, GetWinner(points)) = 0)
    /\ ~IsOver(points) => GetWinner(points) = None

(* C14 - is_player_home_complete(color) is true exactly when every point    *)
(* holding checkers of that color lies in the color's home zone; opposing   *)
(* checkers inside the home zone and checkers on the bar do not matter.     *)
C14_HomeCompleteExact ==
    \A c \in Colors :
        IsPlayerHomeComplete(points, c)
        <=> (\A i \in PointIdx : GetPointColor(points, i) = c => i \in Home(c))

(* C15 - get_choosable_pieces() returns exactly the points of the current   *)
(* player that are the origin of a move of                                  *)
(* get_possible_moves(player, dice_rolls); with empty dice_rolls nothing is *)
(* choosable.                                                               *)
C15_ChoosableHaveMoves ==
    {cp[1] - 1 : cp \in Range(GetChoosablePieces(points, player))}
        = {m[1] : m \in Range(GetPossibleMoves(points, player, dice_rolls))}

(* C16 - On the opening board, for either player and every roll,            *)
(* get_possible_moves contains every pair (origin, origin advanced by a pip *)
(* in the player's direction) whose destination is one of the 24 points and *)
(* does not hold two or more opposing checkers, and no move that lands on a *)
(* point holding two or more opposing checkers; for White with the roll     *)
(* (3,1) it contains (0,3) and (0,1) and nothing landing on index 5 or 12.  *)
C16_OpeningMoves ==
    (points = NewPoints /\ queued.values # <<>>)
    => \A c \in Colors :
         LET ms == Range(GetPossibleMoves(points, c, queued.pips))
             Blocked(t) == /\ GetPointColor(points, t) = Opposite(c)
                           /\ GetPointCount(points, t) >= 2
         IN  /\ \A o \in PointIdx, k \in 1 .. Len(queued.pips) :
                  LET t == o + Direction(c) * queued.pips[k]
                  IN  (GetPointColor(points, o) = c /\ t \in PointIdx
                       /\ ~Blocked(t))
                      => <<o, t>> \in ms
             /\ \A m \in ms : ~Blocked(m[2])
             /\ (c = White /\ queued.values = <<3, 1>>)
                => /\ <<0, 3>> \in ms
                   /\ <<0, 1>> \in ms
                   /\ \A m \in ms : m[2] \notin {5, 12}

\* White's roll (3,1) on the opening board was read and left White to move
C16_Witness ==
    /\ points = NewPoints
    /\ player = White
    /\ queued.values = <<3, 1>>
    /\ dice_rolls = <<3, 1>>

(* C17 - For every board, player and pip list, get_possible_moves(player,   *)
(* pips) is exactly the set of pairs (origin, candidate destination of      *)
(* origin and pip), over the points owned by the player and the pips of the *)
(* list, for which can_move_piece is true; no pair has an origin that the   *)
(* player does not own.                                                     *)
C17_PossibleMovesExact ==
    \A c \in Colors :
        LET ms == Range(GetPossibleMoves(points, c, dice_rolls))
            owned == {i \in PointIdx : GetPointColor(points, i) = c}
            cands == {<<o, GetIndex(c, o, dice_rolls[k])>> :
                        o \in owned, k \in 1 .. Len(dice_rolls)}
        IN  /\ ms = {m \in cands : CanMovePiece(points, c, m[1], m[2]) = "true"}
            /\ \A m \in ms : GetPointColor(points, m[1]) = c

\* two different pips are queued, the player to move has a legal move, and
\* one of the player's candidate pairs is refused by can_move_piece
C17_Witness ==
    /\ Len(dice_rolls) = 2
    /\ dice_rolls[1] # dice_rolls[2]
    /\ GetPossibleMoves(points, player, dice_rolls) # <<>>
    /\ \E o \in PointIdx, k \in 1 .. 2 :
          /\ GetPointColor(points, o) = player
          /\ CanMovePiece(points, player, o,
                          GetIndex(player, o, dice_rolls[k])) = "false"

(* C18 - The candidate destination of a checker is from + pips for White    *)
(* and from - pips for Black; a value of 24 or more (White) or below 0      *)
(* (Black) is returned as it is, an index outside the track, and is never   *)
(* mapped back onto one of the 24 points.                                   *)
C18_CandidateLeavesTrack ==
    \A c \in Colors, o \in PointIdx, k \in 1 .. Len(dice_rolls) :
        GetPointColor(points, o) = c
        => GetIndex(c, o, dice_rolls[k]) = o + Direction(c) * dice_rolls[k]

(* C19 - switch_turn() sets player to the opposite color, dice_rolled to    *)
(* false and dice_rolls to empty, and leaves the 24 points, both bar        *)
(* counters and the game log unchanged; a second switch_turn would restore  *)
(* the original player.  Both handlers that call it send one                *)
(* TurnStartEvent right after the call, and nothing else sends one.         *)
C19_SwitchTurn ==
    [][turn_start_events' > turn_start_events
       => /\ player' = Opposite(player)
          /\ player' # player
          /\ Opposite(player') = player
          /\ dice_rolled' = FALSE
          /\ dice_rolls' = <<>>
          /\ points' = points
          /\ bar' = bar
          /\ game_log' = game_log]_vars

\* White rolled and moved, and the turn went over to Black
C19_Witness ==
    /\ player = Black
    /\ turn_start_events > 0
    /\ moves > 0
    /\ game_log # <<>>
    /\ dice_rolls = <<>>
    /\ ~dice_rolled

(* C20 - The roll log is append-only: no step shortens it or changes an     *)
(* entry; each roll event appends exactly one entry, which holds the player *)
(* to move at that time and the two dice values; every entry holds two      *)
(* values, also after dice_rolls was expanded to four for a double.         *)
C20_LogAppendOnly ==
    /\ [](\A k \in 1 .. Len(game_log) : Len(game_log[k].dice_rolls) = 2)
    /\ [][/\ \/ game_log' = game_log
             \/ \E d1 \in Faces, d2 \in Faces :
                  game_log' = Append(game_log, [player |-> player,
                                                dice_rolls |-> <<d1, d2>>])
          /\ dice_in_flight' < dice_in_flight
             => Len(game_log') = Len(game_log) + 1]_vars

\* the second logged roll is a double; dice_rolls holds its four pips while
\* both log entries hold two values
C20_Witness ==
    /\ Len(game_log) = 2
    /\ game_log[2].dice_rolls[1] = game_log[2].dice_rolls[2]
    /\ queued.values = game_log[2].dice_rolls
    /\ Len(dice_rolls) = 4
    /\ Len(game_log[1].dice_rolls) = 2
    /\ Len(game_log[2].dice_rolls) = 2

(* C21 - Turn end: when the move-end handler runs after an applied move and *)
(* the game is not over, the turn switches (player flips, dice_rolls is     *)
(* emptied, dice_rolled cleared) exactly when dice_rolls is empty or the    *)
(* player has no legal move with the remaining pips; otherwise the player   *)
(* to move and the remaining pips stay as they are.                         *)
C21_TurnEnd ==
    [][(move_end_events' < move_end_events /\ ~IsOver(points))
       => IF dice_rolls = <<>>
             \/ GetPossibleMoves(points, player, dice_rolls) = <<>>
          THEN /\ player' = Opposite(player)
               /\ dice_rolls' = <<>>
               /\ dice_rolled' = FALSE
          ELSE /\ player' = player
               /\ dice_rolls' = dice_rolls
               /\ dice_rolled' = dice_rolled]_vars

\* after the first move of a roll of two different pips the game was not
\* over and the turn went to the opponent: a pip was left without a move
C21_Witness ==
    /\ last_res = "Ok"
    /\ moves = MaxMoves - 1
    /\ move_end_events = 0
    /\ ~IsOver(points)
    /\ Len(queued.pips) = 2
    /\ queued.pips[1] # queued.pips[2]
    /\ player = Opposite(Mover)
    /\ turn_start_events > 0
    /\ dice_rolls = <<>>

(* C22 - GameOver is terminal: once the move-end handler has found          *)
(* is_over() true after an applied move and announced the end of the game,  *)
(* no later event changes the board, the player to move or dice_rolls; no   *)
(* further move is applied, no turn switch happens and is_over() stays      *)
(* true.                                                                    *)
C22_GameOverTerminal ==
    [][game_over_events # <<>>
       => /\ points' = points
          /\ bar' = bar
          /\ player' = player
          /\ dice_rolls' = dice_rolls
          /\ moves' = moves
          /\ IsOver(points')]_vars

C24_SingleOwnership ==
    /\ \A i \in PointIdx :
         Cardinality({c \in Colors : GetPointColor(points, i) = c}) <= 1
    /\ last_res = "Ok"
       => LET opp == Opposite(Mover)
          IN  /\ OnTrack(points, Mover) = OnTrack(prev_points, Mover)
              /\ IF prev_points[To] = -Direction(Mover)
                 THEN /\ OnTrack(points, opp) = OnTrack(prev_points, opp) - 1
                      /\ GetPointColor(points, To) = Mover
                 ELSE OnTrack(points, opp) = OnTrack(prev_points, opp)

\* the mover's last checker on a point hit a single opposing checker
C24_Witness ==
    /\ last_res = "Ok"
    /\ prev_points[From] = Direction(Mover)
    /\ prev_points[To] = -Direction(Mover)
    /\ OnTrack(points, Opposite(Mover))
         = OnTrack(prev_points, Opposite(Mover)) - 1

(* C25 - Moves only go forward: on a board that came from the opening (all  *)
(* 15 checkers of each color on the track or on the bar) every move that    *)
(* get_possible_moves returns, and on any board every move that make_move   *)
(* accepted, has to greater than from for White and to less than from for   *)
(* Black.                                                                   *)
C25_MovesGoForward ==
    /\ (\A c \in Colors : OnTrack(points, c) + bar[BarOf(c)] = 15)
       => \A m \in Range(GetPossibleMoves(points, player, dice_rolls)) :
            (m[2] - m[1]) * Direction(player) > 0
    /\ last_res = "Ok" => (To - From) * Direction(Mover) > 0

(* C26 - Directional sanity on a hit: can_move_piece(player, from, to) is   *)
(* false whenever `to` holds exactly one opposing checker and lies behind   *)
(* `from` in the mover's direction (to less than from for White, to greater *)
(* than from for Black); make_move then returns the InvalidMove error.      *)
C26_NoBackwardHit ==
    (Called /\ To \in PointIdx
            /\ prev_points[To] = -Direction(Mover)
            /\ (To - From) * Direction(Mover) < 0)
    => /\ CanMovePiece(prev_points, Mover, From, To) = "false"
       /\ last_res = "Err"

\* a call from a point of the mover back onto an inner point that held one
\* opposing checker was rejected
C26_Witness ==
    /\ last_res = "Err"
    /\ GetPointColor(prev_points, From) = Mover
    /\ To \in 1 .. 22
    /\ prev_points[To] = -Direction(Mover)
    /\ (To - From) * Direction(Mover) < 0
    /\ points = prev_points

(* C27 - Roll with no legal move: when the roll handler queues the pips of  *)
(* a roll and get_possible_moves for the current player and those pips is   *)
(* empty, the turn switches at once (player flips, dice_rolls emptied,      *)
(* dice_rolled cleared) and the board is unchanged; when it is not empty    *)
(* the player to move stays the same and the queued pips are kept.          *)
C27_RollWithoutMove ==
    [][timers' < timers
       => /\ points' = points
          /\ bar' = bar
          /\ IF GetPossibleMoves(points, player, queued'.pips) = <<>>
             THEN /\ player' = Opposite(player)
                  /\ dice_rolls' = <<>>
                  /\ dice_rolled' = FALSE
             ELSE /\ player' = player
                  /\ dice_rolls' = queued'.pips
                  /\ dice_rolled' = dice_rolled]_vars

\* a roll was read for a player without a legal move: the turn went over
\* before any move
C27_Witness ==
    /\ timers = 0
    /\ last_res = "none"
    /\ Len(game_log) = 1
    /\ queued.values = game_log[1].dice_rolls
    /\ GetPossibleMoves(points, game_log[1].player, queued.pips) = <<>>
    /\ player = Opposite(game_log[1].player)
    /\ dice_rolls = <<>>
    /\ ~dice_rolled
    /\ turn_start_events > 0

(* C28 - Dice queue bounds: in every reachable state dice_rolls has between *)
(* 0 and 4 entries, every entry is a face value in 1..6, and it has more    *)
(* than two entries only when all its entries are equal (a double).         *)
C28_DiceQueueBounds ==
    /\ Len(dice_rolls) <= 4
    /\ \A k \in 1 .. Len(dice_rolls) : dice_rolls[k] \in DieFaces
    /\ Len(dice_rolls) > 2
       => \A k \in 1 .. Len(dice_rolls) : dice_rolls[k] = dice_rolls[1]

\* a double was queued and one of its four pips has been played
C28_Witness ==
    /\ last_res = "Ok"
    /\ Len(queued.pips) = 4
    /\ Len(dice_rolls) = 3
    /\ dice_rolls[1] = queued.values[1]

(* C29 - No stacking cap: can_move_piece does not reject a move because the *)
(* destination already holds five or more checkers of the mover; a forward  *)
(* move from a point of the mover onto such a point (an inner point, which  *)
(* can_move_piece does not refuse as an edge) is accepted and raises its    *)
(* count by one.                                                            *)
C29_NoStackingCap ==
    \A c \in Colors, t \in PointIdx \ {0, NumPoints - 1} :
        (GetPointColor(points, t) = c /\ GetPointCount(points, t) >= 5)
        => \A f \in PointIdx :
             (GetPointColor(points, f) = c /\ (t - f) * Direction(c) > 0)
             => LET r == MakeMove(points, bar, c, f, t)
                IN  /\ CanMovePiece(points, c, f, t) = "true"
                    /\ r.res = "Ok"
                    /\ GetPointColor(r.points, t) = c
                    /\ GetPointCount(r.points, t)
                         = GetPointCount(points, t) + 1

\* a move onto a point that held five of the mover's checkers was applied
C29_Witness ==
    /\ last_res = "Ok"
    /\ GetPointColor(prev_points, To) = Mover
    /\ GetPointCount(prev_points, To) = 5
    /\ GetPointCount(points, To) = 6

(* C30 - Inexact bear-off fallback: when bear_off_piece finds the exact     *)
(* point empty and no move on the board with that pip is legal, it removes  *)
(* exactly one checker of the current player from the occupied home point   *)
(* of that player that is furthest from the bear-off edge (the lowest of    *)
(* 18..23 for White, the highest of 0..5 for Black), and it never changes   *)
(* the number of the opponent's checkers nor adds a checker to any point.   *)
C30_BearOffFallback ==
    last_res = "Fallback"
    => LET c == Mover
           occupied == {i \in Home(c) : GetPointColor(prev_points, i) = c}
           furthest == IF c = White
                       THEN CHOOSE i \in occupied : \A j \in occupied : i <= j
                       ELSE CHOOSE i \in occupied : \A j \in occupied : i >= j
       IN  /\ OnTrack(points, Opposite(c)) = OnTrack(prev_points, Opposite(c))
           /\ \A i \in PointIdx :
                GetPointCount(points, i) <= GetPointCount(prev_points, i)
           /\ occupied # {}
              => points = [prev_points EXCEPT ![furthest] = @ - Direction(c)]

(* C31 - bear_off_piece takes a checker only from the current player's home *)
(* zone and only when is_player_home_complete(player) holds; called in any  *)
(* other state it leaves the board unchanged.                               *)
C31_BearOffOnlyFromCompleteHome ==
    last_res \in {"Exact", "Moved", "Fallback"}
    => /\ ~IsPlayerHomeComplete(prev_points, Mover)
          => (points = prev_points /\ bar = prev_bar)
       /\ \A i \in PointIdx \ Home(Mover) :
            CountOn(points, Mover, i) >= CountOn(prev_points, Mover, i)

(* C32 - Every enumerated move pays for itself: on a board that came from   *)
(* the opening (all 15 checkers of each color on the track or on the bar),  *)
(* each move (from, to) of get_possible_moves(player, dice_rolls) has       *)
(* |to - from| equal to a value present in dice_rolls, so that applying it  *)
(* removes a pip.                                                           *)
C32_MovePaysPip ==
    (\A c \in Colors : OnTrack(points, c) + bar[BarOf(c)] = 15)
    => \A m \in Range(GetPossibleMoves(points, player, dice_rolls)) :
         \E k \in 1 .. Len(dice_rolls) : dice_rolls[k] = MovePip(m[1], m[2])

(* C33 - A turn is bounded: every applied move makes dice_rolls strictly    *)
(* shorter, so that after one roll a player applies at most four moves (two *)
(* for a non-double) before the turn switches or the game ends.             *)
C33_MoveShortensQueue ==
    [][(last_res' = "Ok" /\ moves' = moves + 1)
       => Len(dice_rolls') < Len(dice_rolls)]_vars

(* C34 - Roll result versus timer: whenever the dice-roll timer fires, the  *)
(* log is non-empty and its last entry is the roll of the turn under way:   *)
(* no roll result is still awaited and the entry names the player now to    *)
(* move.  Under every interleaving of the roll result and the timer the     *)
(* handler never reads an empty log and never queues an earlier roll.       *)
C34_TimerAfterResult ==
    [][(timers' < timers \/ (panicked' /\ ~panicked))
       => /\ game_log # <<>>
          /\ dice_in_flight = 0
          /\ game_log[Len(game_log)].player = player]_vars

(* C35 - The bar only fills: no step lowers a bar counter and no step puts  *)
(* a checker back on the track (the number of checkers a color has on the   *)
(* 24 points never grows); a player with a checker on the bar is still      *)
(* offered every move of the checkers on the track that can_move_piece      *)
(* accepts for a queued pip.                                                *)
C35_BarOnlyFills ==
    [][/\ \A i \in 0 .. 1 : bar'[i] >= bar[i]
       /\ \A c \in Colors : OnTrack(points', c) <= OnTrack(points, c)
       /\ bar[BarOf(player)] > 0
          => PickedMoves =
               {<<o + 1, GetIndex(player, o, dice_rolls[k]) + 1>> :
                  <<o, k>> \in
                    {ok \in PointIdx \X (1 .. Len(dice_rolls)) :
                       /\ GetPointColor(points, ok[1]) = player
                       /\ CanMovePiece(points, player, ok[1],
                             GetIndex(player, ok[1], dice_rolls[ok[2]]))
                            = "true"}}]_vars

\* a player with a checker on the bar moved a checker on the track and hit
C35_Witness ==
    /\ last_res = "Ok"
    /\ prev_bar[BarOf(Mover)] > 0
    /\ bar[BarOf(Mover)] = prev_bar[BarOf(Mover)]
    /\ bar[BarOf(Opposite(Mover))] = 1

(* C36 - The announced winner is the real one: whenever a GameOverEvent is  *)
(* sent, the player it names is the color get_winner() returns in that      *)
(* state, and that color has no checker left on the track.                  *)
C36_AnnouncedWinner ==
    [][game_over_events' # game_over_events
       => LET named == game_over_events'[Len(game_over_events')]
          IN  /\ named = GetWinner(points')
              /\ OnTrack(points', named) = 0]_vars

(* C37 - Frame of an accepted move: a successful make_move(player, from,    *)
(* to) changes only points[from], points[to] and, on a hit, the opponent's  *)
(* bar counter; every other point and the mover's own bar counter are       *)
(* unchanged, points[from] loses exactly one checker of the mover and       *)
(* remains empty or owned by the mover.                                     *)
C37_MoveFrame ==
    last_res = "Ok"
    => /\ \A i \in PointIdx \ {From, To} : points[i] = prev_points[i]
       /\ bar[BarOf(Mover)] = prev_bar[BarOf(Mover)]
       /\ bar[BarOf(Opposite(Mover))] # prev_bar[BarOf(Opposite(Mover))]
          => prev_points[To] = -Direction(Mover)
       /\ points[From] = prev_points[From] - Direction(Mover)
       /\ GetPointColor(points, From) \in {Mover, None}

(* C38 - The rolled flag agrees with the dice queue: in every reachable     *)
(* state a non-empty dice_rolls implies dice_rolled; a step that switches   *)
(* the turn leaves dice_rolled false and dice_rolls empty, and dice_rolls   *)
(* stays empty for as long as dice_rolled is false, that is until the next  *)
(* roll is requested.                                                       *)
C38_RolledFlagAgrees ==
    /\ (dice_rolls # <<>> => dice_rolled)
    /\ [][/\ dice_rolls' # <<>> => dice_rolled'
          /\ player' # player => (~dice_rolled' /\ dice_rolls' = <<>>)]_vars

\* the turn has switched after a move and the next roll is not yet requested
C38_Witness ==
    /\ last_res = "Ok"
    /\ player # Mover
    /\ ~dice_rolled
    /\ dice_rolls = <<>>
    /\ game_log # <<>>

====
